---- MODULE Spec2Model ----
(***************************************************************************)
(* A model of AuthManager (src/StreamlitAuthManager.py): password hashing  *)
(* and credential lookup, signed timed tokens (itsdangerous                *)
(* URLSafeTimedSerializer, as called on lines 24, 71 and 85), and the      *)
(* cookie-backed session store (lines 25, 89-117).                         *)
(*                                                                         *)
(* Strings are sequences of numbers.  A character of a token is a number:  *)
(* 0..63 are the 64 characters of the URL-safe base64 alphabet (the value  *)
(* is the character's 6 bits), Dot is the separator "." and Junk is any    *)
(* character outside the alphabet.  A byte is a number in 0..255.          *)
(***************************************************************************)
EXTENDS Integers, Sequences, FiniteSets, TLC

VARIABLES
    now,          \* the wall clock (time.time()), in ticks of 1/TicksPerSec s
    token,        \* the token most recently returned by generate_token
    vt,           \* the most recent validate_token call and its result
    users,        \* the rows of the Users table: <<username, password>>
    diagnostics,  \* number of st.error reports emitted so far
    conns,        \* database connections opened and not yet closed
    vu,           \* the most recent verify_user call and its result
    cookies,      \* cookie_manager: the in-memory key/value view
    saved,        \* cookie_manager: what save() has committed
    sc,           \* the most recent session-store / login call and its result
    written,      \* history: per key, the value last set, Cleared once logout
                  \* removed it, None while never set
    sess,         \* history: how the session key was last changed, and the token
                  \* the caller held when logout last ran
    peer          \* the AuthManager of a second client: its cookie_manager, the
                  \* verify_user call it is in, and history of its calls

vars == <<now, token, vt, users, diagnostics, conns, vu, cookies, saved, sc, written, sess, peer>>
tokenVars == <<token, vt>>
credVars == <<users, diagnostics, conns, vu>>
sessVars == <<cookies, saved, sc, written, sess, peer>>

(***************************************************************************)
(* Bounds of the model.                                                    *)
(***************************************************************************)
TicksPerSec == 2      \* clock resolution: ticks per second
MaxTicks == 6         \* single ticks the clock may advance after a jump
MaxJumps == 1         \* jumps of DefaultMaxAge seconds the clock may make
StartSec == 4000      \* the clock reading, in seconds, when the model starts
MaxAgeBound == 2      \* explicit max_age arguments are 0..MaxAgeBound
MaxDiagnostics == 2   \* st.error reports counted
MaxConns == 2         \* connections left open at once

(***************************************************************************)
(* Program constants.                                                      *)
(***************************************************************************)
DefaultMaxAge == 3600 \* validate_token(token, max_age=3600)
DefaultExpiresIn == 3600 \* generate_token(user_id, expires_in=3600)

None == << -1 >>      \* Python's None, where a string is expected

(***************************************************************************)
(* Bytes, bits and base64 (itsdangerous.encoding, used by dumps/loads).    *)
(***************************************************************************)
CharBits == 6         \* bits carried by one base64 character
ByteBits == 8
Dot == 64             \* the separator "."
Junk == 65            \* a character outside the base64 alphabet
Alphabet == 0 .. 63

\* The bits of the number v, most significant first, in a field of w bits.
RECURSIVE BitsOf(_, _)
BitsOf(v, w) ==
    IF w = 0 THEN <<>>
    ELSE BitsOf(v \div 2, w - 1) \o << v % 2 >>

RECURSIVE ValueOf(_)
ValueOf(bits) ==
    IF bits = <<>> THEN 0
    ELSE 2 * ValueOf(SubSeq(bits, 1, Len(bits) - 1)) + bits[Len(bits)]

RECURSIVE Concat(_, _, _)
Concat(seq, w, i) ==
    IF i > Len(seq) THEN <<>>
    ELSE BitsOf(seq[i], w) \o Concat(seq, w, i + 1)

\* Groups of w bits of the bit string, from bit i on; `pad` says whether a
\* trailing partial group is zero-filled (encoding) or dropped (decoding).
RECURSIVE Groups(_, _, _, _)
Groups(bits, w, i, pad) ==
    IF i > Len(bits) THEN <<>>
    ELSE IF i + w - 1 <= Len(bits)
         THEN << ValueOf(SubSeq(bits, i, i + w - 1)) >> \o Groups(bits, w, i + w, pad)
         ELSE IF pad
              THEN << ValueOf(SubSeq(bits, i, Len(bits)) \o
                              [k \in 1 .. (i + w - 1 - Len(bits)) |-> 0]) >>
              ELSE <<>>

\* base64_encode: URL-safe base64 of the bytes, with the "=" padding stripped.
base64_encode(bytes) == Groups(Concat(bytes, ByteBits, 1), CharBits, 1, TRUE)

SelectAlphabet(s) == SelectSeq(s, LAMBDA c : c \in Alphabet)

\* base64_decode: itsdangerous appends "=" up to a multiple of 4 of the length
\* of the string as given, and base64.urlsafe_b64decode (non-strict) discards
\* every character outside the alphabet, needs the padding to complete the
\* last group of 4, and drops the bits left over after the last whole byte.
base64_decode_ok(s) ==
    LET n == Len(SelectAlphabet(s))
        pads == (4 - (Len(s) % 4)) % 4
    IN  \/ n % 4 = 0
        \/ n % 4 = 2 /\ pads >= 2
        \/ n % 4 = 3 /\ pads >= 1

base64_decode(s) == Groups(Concat(SelectAlphabet(s), CharBits, 1), ByteBits, 1, FALSE)

(***************************************************************************)
(* Payload and timestamp (itsdangerous Serializer / TimestampSigner).      *)
(***************************************************************************)
Quote == 34           \* the byte of the JSON string delimiter
Backslash == 92

\* json.dumps of a string: the string between two quotes.
json_dumps(s) == << Quote >> \o s \o << Quote >>

\* json.loads accepts the bytes as a string when they are a quoted run of
\* plain characters; any other document a string subject never produces.
json_loads_ok(b) ==
    /\ Len(b) >= 2
    /\ b[1] = Quote
    /\ b[Len(b)] = Quote
    /\ \A i \in 2 .. (Len(b) - 1) : b[i] >= 32 /\ b[i] < 128 /\ b[i] # Quote /\ b[i] # Backslash

json_loads(b) == SubSeq(b, 2, Len(b) - 1)

\* int_to_bytes: big-endian, leading zero bytes stripped (0 is the empty string).
RECURSIVE int_to_bytes(_)
int_to_bytes(n) ==
    IF n = 0 THEN <<>>
    ELSE int_to_bytes(n \div 256) \o << n % 256 >>

RECURSIVE bytes_to_int(_)
bytes_to_int(b) ==
    IF b = <<>> THEN 0
    ELSE 256 * bytes_to_int(SubSeq(b, 1, Len(b) - 1)) + b[Len(b)]

\* TimestampSigner.get_timestamp: int(time.time()), whole seconds.
get_timestamp(t) == t \div TicksPerSec

(***************************************************************************)
(* The keyed signature.  HMAC-SHA1 is idealised as a keyed polynomial hash *)
(* modulo a prime: deterministic, and changed by any change of one         *)
(* character of the signed value or of the key.  DigestBytes scales the 20 *)
(* bytes of SHA-1 down to 2: both leave 2 unused bits in the last base64   *)
(* character of the encoded signature (20 % 3 = 2 % 3).                    *)
(***************************************************************************)
DigestBytes == 2
HashModulus == 65521  \* the largest prime below 2^16
HashBase == 67
SecretKey == 11       \* the secret_key given to the constructor
AuthSalt == 5         \* the salt literal "auth_salt"

\* Signer.derive_key ("django-concat"): a digest of salt + "signer" + secret.
derive_key_unsalted(secret, salt) == (secret * 3 + 1) % HashModulus
derive_key(secret, salt) == (salt * 257 + secret * 3 + 1) % HashModulus

RECURSIVE hmac(_, _)
hmac(key, value) ==
    IF value = <<>> THEN key
    ELSE (hmac(key, SubSeq(value, 1, Len(value) - 1)) * HashBase
          + value[Len(value)] + 1) % HashModulus

RECURSIVE to_bytes(_, _)
to_bytes(n, w) ==
    IF w = 0 THEN <<>>
    ELSE to_bytes(n \div 256, w - 1) \o << n % 256 >>

\* Signer.get_signature: the base64 of the digest of the value.
get_signature(secret, salt, value) ==
    base64_encode(to_bytes(hmac(derive_key(secret, salt), value), DigestBytes))

\* Signer.verify_signature: the signature part is base64-decoded (a decoding
\* error is a mismatch) and the decoded bytes are compared with the digest.
verify_signature(secret, salt, value, sig) ==
    /\ base64_decode_ok(sig)
    /\ base64_decode(sig) = to_bytes(hmac(derive_key(secret, salt), value), DigestBytes)

\* Position of the last separator of s, 0 when there is none (rsplit(sep, 1)).
RECURSIVE LastDot(_, _)
LastDot(s, i) ==
    IF i = 0 THEN 0
    ELSE IF s[i] = Dot THEN i ELSE LastDot(s, i - 1)

\* URLSafeTimedSerializer.dumps(obj, salt): payload "." timestamp "." signature.
\* Payloads this short are never compressed.
serializer_dumps(secret, salt, subject, t) ==
    LET value == base64_encode(json_dumps(subject)) \o << Dot >>
                 \o base64_encode(int_to_bytes(get_timestamp(t)))
    IN  value \o << Dot >> \o get_signature(secret, salt, value)

\* TimestampSigner.unsign: the age in whole seconds is checked against max_age.
expired_unless_zero(age, max_age) == (max_age # 0 /\ age > max_age) \/ age < 0
expired_at_limit(age, max_age) == age >= max_age \/ age < 0
expired_a_second_late(age, max_age) == age > max_age + 1 \/ age < 0
expired(age, max_age) == age > max_age \/ age < 0

\* URLSafeTimedSerializer.loads(s, salt, max_age) at clock t: the exception it
\* raises ("none" when it returns) and the value it returns.
serializer_loads(secret, salt, s, max_age, t) ==
    IF s = None THEN [exc |-> "TypeError", val |-> None]
    ELSE
    LET d1 == LastDot(s, Len(s))
        value == SubSeq(s, 1, d1 - 1)
        sig == SubSeq(s, d1 + 1, Len(s))
        d2 == LastDot(value, Len(value))
        payload == SubSeq(value, 1, d2 - 1)
        ts == SubSeq(value, d2 + 1, Len(value))
        age == get_timestamp(t) - bytes_to_int(base64_decode(ts))
        json == base64_decode(payload)
    IN  IF d1 = 0 THEN [exc |-> "BadSignature", val |-> None]
        ELSE IF ~verify_signature(secret, salt, value, sig)
        THEN [exc |-> IF d2 = 0 THEN "BadSignature" ELSE "BadTimeSignature", val |-> None]
        ELSE IF d2 = 0 \/ ~base64_decode_ok(ts)
        THEN [exc |-> "BadTimeSignature", val |-> None]
        ELSE IF expired(age, max_age)
        THEN [exc |-> "SignatureExpired", val |-> None]
        ELSE IF \/ (payload # <<>> /\ payload[1] = Dot)
                \/ ~base64_decode_ok(payload)
                \/ ~json_loads_ok(json)
        THEN [exc |-> "BadPayload", val |-> None]
        ELSE [exc |-> "none", val |-> json_loads(json)]

\* except Exception: every exception loads can raise is caught.
CaughtBadData == {"BadSignature", "BadTimeSignature", "SignatureExpired", "BadPayload"}
Caught == {"BadSignature", "BadTimeSignature", "SignatureExpired", "BadPayload", "TypeError"}

\* AuthManager.generate_token(user_id, expires_in) at clock t.  expires_in is
\* accepted and not used: the token carries the issuance time only.
generate_token_backdated(user_id, expires_in, t) ==
    serializer_dumps(SecretKey, AuthSalt, user_id,
                     t - (DefaultExpiresIn - expires_in) * TicksPerSec)
generate_token_other_salt(user_id, expires_in, t) ==
    serializer_dumps(SecretKey, AuthSalt + 1, user_id, t)
generate_token(user_id, expires_in, t) == serializer_dumps(SecretKey, AuthSalt, user_id, t)

\* AuthManager.validate_token(token, max_age) at clock t: whether an exception
\* reaches the caller, and the value returned otherwise.  Nothing but the token,
\* the secret, max_age and the clock is read.
validate_token_revocable(tok, max_age, t) ==
    LET r == serializer_loads(SecretKey, AuthSalt, tok, max_age, t)
    IN  IF r.exc = "none" /\ "auth_token" \in DOMAIN saved
        THEN [raised |-> FALSE, ret |-> r.val]
        ELSE [raised |-> FALSE, ret |-> None]
validate_token(tok, max_age, t) ==
    LET r == serializer_loads(SecretKey, AuthSalt, tok, max_age, t)
    IN  IF r.exc = "none" THEN [raised |-> FALSE, ret |-> r.val]
        ELSE IF r.exc \in Caught THEN [raised |-> FALSE, ret |-> None]
        ELSE [raised |-> TRUE, ret |-> None]

(***************************************************************************)
(* Inputs.                                                                 *)
(***************************************************************************)
Subjects == { <<97>>, <<98>> }            \* the user ids "a" and "b"
MaxAges == (0 .. MaxAgeBound) \cup { DefaultMaxAge }
ExpiresIns == { 1, DefaultExpiresIn }
\* Strings that are no token: "", "!", ".", "A.A", "..".
Malformed == { <<>>, << Junk >>, << Dot >>, << 0, Dot, 0 >>, << Dot, Dot >> }

JumpTicks == DefaultMaxAge * TicksPerSec
StartTicks == StartSec * TicksPerSec

NoToken == [tok |-> None, sub |-> None, at |-> 0, exp |-> 0, signer |-> "own"]
NoValidate == [called |-> FALSE, tok |-> None, max_age |-> 0, at |-> 0,
               raised |-> FALSE, ret |-> None]

NoVerify == [called |-> FALSE, username |-> None, password |-> None, outcome |-> "ok",
             raised |-> FALSE, ret |-> FALSE, before |-> 0]
NoCall == [op |-> "none", key |-> "", val |-> None, raised |-> FALSE, ret |-> None,
           before |-> None]

\* s with the character at position i replaced by c.
Replace(s, i, c) == [s EXCEPT ![i] = c]

\* The character c with bit j flipped (bit 0 is the lowest).
FlipBit(c, j) ==
    LET p == ValueOf(<<1>> \o [k \in 1 .. j |-> 0])
    IN  IF (c \div p) % 2 = 1 THEN c - p ELSE c + p

\* What one character may be changed into: the same base64 character with one
\* of its 6 bits flipped, the separator, or a character outside the alphabet.
Changes(c) ==
    (IF c \in Alphabet THEN { FlipBit(c, j) : j \in 0 .. (CharBits - 1) } ELSE { 0 })
    \cup { Dot, Junk }

\* s and t differ in exactly one character.
DiffersInOne(s, t) ==
    /\ Len(s) = Len(t)
    /\ Cardinality({ i \in 1 .. Len(s) : s[i] # t[i] }) = 1

\* Strings that differ from s in exactly one character.
TamperedOnce(s) ==
    UNION { { Replace(s, i, c) : c \in Changes(s[i]) } : i \in 1 .. Len(s) } \ { s }

(***************************************************************************)
(* The clock.                                                              *)
(***************************************************************************)
\* No call has returned a result that its caller has yet to take.  Calls run
\* one at a time, each to completion (no operation suspends or overlaps).
Idle == ~vt.called /\ ~vu.called /\ sc.op = "none"

\* The caller takes the result of the call that just returned.
Return ==
    /\ ~Idle
    /\ vt' = NoValidate
    /\ vu' = NoVerify
    /\ sc' = NoCall
    /\ UNCHANGED <<now, token, users, diagnostics, conns, cookies, saved, written, sess, peer>>

Tick ==
    /\ Idle
    /\ (now - StartTicks) % JumpTicks < MaxTicks
    /\ now' = now + 1
    /\ UNCHANGED <<tokenVars, credVars, sessVars>>

Jump ==
    /\ Idle
    /\ (now - StartTicks) \div JumpTicks < MaxJumps
    /\ now' = now + JumpTicks
    /\ UNCHANGED <<tokenVars, credVars, sessVars>>

(***************************************************************************)
(* Token operations.                                                       *)
(***************************************************************************)
GenerateToken ==
    \E s \in Subjects, e \in ExpiresIns :
        /\ Idle
        /\ token' = [tok |-> generate_token(s, e, now), sub |-> s, at |-> now,
                      exp |-> e, signer |-> "own"]
        /\ UNCHANGED <<now, vt, credVars, sessVars>>

DoValidate(tok, m) ==
    LET r == validate_token(tok, m, now)
    IN  /\ Idle
        /\ vt' = [called |-> TRUE, tok |-> tok, max_age |-> m, at |-> now,
                  raised |-> r.raised, ret |-> r.ret]
        /\ UNCHANGED <<now, token, credVars, sessVars>>

\* The token with its first payload character changed: a bad signature.
Forged(tok) == IF tok = None THEN {} ELSE { Replace(tok, 1, FlipBit(tok[1], 0)) }

\* validate_token of the token as issued, of None (what get_cookie returns for
\* a missing key), of a malformed string, or of a token with a bad signature.
ValidateToken ==
    \E tok \in { token.tok, None } \cup Malformed \cup Forged(token.tok), m \in MaxAges :
        DoValidate(tok, m)

\* A token signed by somebody else's serializer: with this secret under
\* another salt, or with another secret under this salt.
OtherSecret == 13
OtherSalt == 6
Signers ==
    [ other_salt |-> [secret |-> SecretKey, salt |-> OtherSalt],
      other_secret |-> [secret |-> OtherSecret, salt |-> AuthSalt] ]

GenerateForeign ==
    \E s \in Subjects, who \in DOMAIN Signers :
        /\ Idle
        /\ token' = [tok |-> serializer_dumps(Signers[who].secret, Signers[who].salt, s, now),
                      sub |-> s, at |-> now, exp |-> DefaultExpiresIn, signer |-> who]
        /\ UNCHANGED <<now, vt, credVars, sessVars>>

\* validate_token of the token the caller holds, as issued.
ValidateHeld ==
    /\ token # NoToken
    /\ \E m \in MaxAges : DoValidate(token.tok, m)

\* validate_token of an issued token with one character changed.
ValidateTampered ==
    /\ token # NoToken
    /\ \E tok \in TamperedOnce(token.tok), m \in MaxAges : DoValidate(tok, m)

(***************************************************************************)
(* Credentials (hash_password, verify_user).                               *)
(***************************************************************************)
HexDigits == 4        \* hex digits of the modelled digest (64 for SHA-256)
HashSeed == 7
Passwords == { <<>>, <<112>>, <<113>> }   \* the plaintexts "", "p" and "q"

\* One lower-case hexadecimal digit, as its character code.
HexChar(d) == IF d < 10 THEN 48 + d ELSE 87 + d

RECURSIVE HexOf(_, _)
HexOf(n, w) ==
    IF w = 0 THEN <<>>
    ELSE HexOf(n \div 16, w - 1) \o << HexChar(n % 16) >>

\* hashlib.sha256(password.encode()).hexdigest(): a fixed-length hexadecimal
\* digest; SHA-256 is idealised as a polynomial hash of the bytes.
hash_password(password) == HexOf(hmac(HashSeed, password), HexDigits)

\* What the backend does during one call: it answers, pyodbc.connect raises,
\* cursor.execute raises, or the commit on leaving the with block raises.
Outcomes == { "ok", "connect_error", "query_error", "commit_error" }

\* SELECT * FROM Users WHERE username = ? AND password = ?, then
\* cursor.fetchone() is not None.
fetch_matches_either(tbl, username, hashed_password) ==
    \E row \in tbl : row[1] = username \/ row[2] = hashed_password
fetch_matches(tbl, username, hashed_password) ==
    \E row \in tbl : row[1] = username /\ row[2] = hashed_password

\* The rows of Users after the SELECT ran and the with block committed: a
\* query writes nothing.
rows_after_upsert(tbl, username, hashed_password) ==
    tbl \cup { << username, hashed_password >> }
rows_after_select(tbl, username, hashed_password) == tbl

\* The exception the with block of verify_user ends with ("none": it returns).
backend_exception(outcome) == IF outcome = "ok" THEN "none" ELSE outcome

\* except Exception: every error of the backend is caught.
CaughtQueryOnly == { "query_error", "commit_error" }
CaughtByVerify == Outcomes \ { "ok" }

\* Connections pyodbc.connect opens during the call: one, unless it raises.
opened(outcome) == IF outcome = "connect_error" THEN 0 ELSE 1

\* Connections the call has released when it returns.  The connection is local
\* to the call: leaving the with block ends its transaction (commit, or
\* rollback on an exception) and the connection is closed as the call's
\* references to it go, on every path that opened one.
released_on_success_only(outcome) == IF outcome = "ok" THEN 1 ELSE 0
released(outcome) == opened(outcome)

\* Connections still open when verify_user returns.
open_at_return(outcome) == opened(outcome) - released(outcome)

verify_user_true_on_error(tbl, username, password, outcome) ==
    [raised |-> FALSE,
     ret |-> IF outcome = "ok" THEN fetch_matches(tbl, username, hash_password(password))
             ELSE TRUE,
     errors |-> IF outcome = "ok" THEN 0 ELSE 1, open |-> 0]

\* verify_user(username, password) against the table tbl: whether an exception
\* reaches the caller, the value returned, the st.error reports emitted and the
\* connections left open.
verify_user(tbl, username, password, outcome) ==
    LET hashed_password == hash_password(password)
        exc == backend_exception(outcome)
    IN  IF exc = "none"
        THEN [raised |-> FALSE, ret |-> fetch_matches(tbl, username, hashed_password),
              errors |-> 0, open |-> open_at_return(outcome)]
        ELSE IF exc \in CaughtByVerify
        THEN [raised |-> FALSE, ret |-> FALSE,
              errors |-> 1, open |-> open_at_return(outcome)]
        ELSE [raised |-> TRUE, ret |-> FALSE,
              errors |-> 0, open |-> open_at_return(outcome)]

\* The record of a verify_user call with result r.
VerifyRecord(u, p, o, r) ==
    [called |-> TRUE, username |-> u, password |-> p, outcome |-> o,
     raised |-> r.raised, ret |-> r.ret, before |-> diagnostics]

VerifyUser ==
    \E u \in Subjects, p \in Passwords, o \in Outcomes :
        LET r == verify_user(users, u, p, o)
        IN  /\ Idle
            /\ diagnostics + r.errors <= MaxDiagnostics
            /\ conns + r.open <= MaxConns
            /\ diagnostics' = diagnostics + r.errors
            /\ conns' = conns + r.open
            /\ vu' = VerifyRecord(u, p, o, r)
            /\ users' = rows_after_select(users, u, hash_password(p))
            /\ UNCHANGED <<now, tokenVars, sessVars>>

\* hash_password(password), called on its own.
HashPassword ==
    \E p \in Passwords :
        /\ Idle
        /\ sc' = [NoCall EXCEPT !.op = "hash", !.val = p, !.ret = hash_password(p)]
        /\ UNCHANGED <<now, tokenVars, credVars, cookies, saved, written, sess, peer>>

(***************************************************************************)
(* The session store (cookie_manager) and the session lifecycle.           *)
(***************************************************************************)
SessionKey == "auth_token"                \* the key the token is stored under
CookieKeys == { SessionKey, "theme" }
CookieValues == { <<120>>, <<121>> }      \* the values "x" and "y"
NoCookies == [k \in {} |-> None]         \* the store holding no key
Cleared == << -2 >>                       \* history mark of a key removed by logout

\* self.cookie_manager[key] = value
set_item_if_absent(c, key, value) ==
    [k \in DOMAIN c \cup { key } |-> IF k \in DOMAIN c THEN c[k] ELSE value]
set_item(c, key, value) == [k \in DOMAIN c \cup { key } |-> IF k = key THEN value ELSE c[k]]

\* self.cookie_manager.get(key): the value, or None for a key not held.
get_cookie(c, key) == IF key \in DOMAIN c THEN c[key] ELSE None

\* self.cookie_manager.clear(): every key is removed.
clear_session_key_only(c) == [k \in DOMAIN c \ { SessionKey } |-> c[k]]
clear(c) == [k \in {} |-> None]

\* self.cookie_manager.save(): the in-memory view is committed.
save_not_flushed(c) == NoCookies
save(c) == c

SetCookie ==
    \E k \in CookieKeys, v \in CookieValues :
        /\ Idle
        /\ cookies' = set_item(cookies, k, v)
        /\ saved' = save(cookies')
        /\ sc' = [NoCall EXCEPT !.op = "set", !.key = k, !.val = v,
                                 !.before = get_cookie(cookies, k)]
        /\ written' = [written EXCEPT ![k] = v]
        /\ sess' = IF k = SessionKey THEN [state |-> "other", user |-> None, at |-> 0, held |-> None]
                   ELSE sess
        /\ UNCHANGED <<now, tokenVars, credVars, peer>>

GetCookie ==
    \E k \in CookieKeys :
        /\ Idle
        /\ sc' = [NoCall EXCEPT !.op = "get", !.key = k, !.ret = get_cookie(cookies, k)]
        /\ UNCHANGED <<now, tokenVars, credVars, cookies, saved, written, sess, peer>>

Logout ==
    /\ Idle
    /\ cookies' = clear(cookies)
    /\ saved' = save(cookies')
    /\ sc' = [NoCall EXCEPT !.op = "logout"]
    /\ written' = [k \in CookieKeys |-> IF written[k] = None THEN None ELSE Cleared]
    /\ sess' = [state |-> "out", user |-> None, at |-> 0, held |-> token.tok]
    /\ UNCHANGED <<now, tokenVars, credVars, peer>>

\* login(username, plaintext): verify_user; on True generate_token(username)
\* and set_cookie(SessionKey, token), returning the token; on False None.
Login ==
    \E u \in Subjects, p \in Passwords, o \in Outcomes :
        LET r == verify_user(users, u, p, o)
            tok == generate_token(u, DefaultExpiresIn, now)
        IN  /\ Idle
            /\ diagnostics + r.errors <= MaxDiagnostics
            /\ conns + r.open <= MaxConns
            /\ diagnostics' = diagnostics + r.errors
            /\ conns' = conns + r.open
            /\ vu' = VerifyRecord(u, p, o, r)
            /\ IF r.ret /\ ~r.raised
               THEN /\ cookies' = set_item(cookies, SessionKey, tok)
                    /\ saved' = save(cookies')
                    /\ sc' = [NoCall EXCEPT !.op = "login", !.val = u, !.ret = tok]
                    /\ written' = [written EXCEPT ![SessionKey] = tok]
                    /\ sess' = [state |-> "in", user |-> u, at |-> now, held |-> None]
               ELSE /\ sc' = [NoCall EXCEPT !.op = "login", !.val = u, !.raised = r.raised]
                    /\ UNCHANGED <<cookies, saved, written, sess>>
            /\ users' = rows_after_select(users, u, hash_password(p))
            /\ UNCHANGED <<now, tokenVars, peer>>

\* current_subject(): validate_token(get_cookie(SessionKey)).
CurrentSubject ==
    LET r == validate_token(get_cookie(cookies, SessionKey), DefaultMaxAge, now)
    IN  /\ Idle
        /\ sc' = [NoCall EXCEPT !.op = "current_subject", !.raised = r.raised, !.ret = r.ret]
        /\ UNCHANGED <<now, tokenVars, credVars, cookies, saved, written, sess, peer>>

(***************************************************************************)
(* A second client.  Each client runs its own AuthManager, whose           *)
(* cookie_manager is an attribute of the instance (line 25); the clients   *)
(* share the Users table and nothing else.                                 *)
(***************************************************************************)
Self == 1             \* the client whose calls the variables above record
Peer == 2             \* the second client

\* The store self.cookie_manager of a client's AuthManager refers to: the
\* client's own.
cookie_manager_shared(client) == Self
cookie_manager_of(client) == client

NoPeerCall == [busy |-> FALSE, username |-> None, password |-> None]
NoPeerResult == [op |-> "none", key |-> "", ret |-> None, want |-> None]
\* expect: what the peer's store would hold had the peer run alone.
NoPeer == [cookies |-> NoCookies, saved |-> NoCookies, expect |-> NoCookies,
           call |-> NoPeerCall, result |-> NoPeerResult]

\* The in-memory view the peer's AuthManager reads.
PeerStore == IF cookie_manager_of(Peer) = Peer THEN peer.cookies ELSE cookies

\* The peer's AuthManager sets its in-memory view to c and saves it.
PeerCommit(c, e) ==
    IF cookie_manager_of(Peer) = Peer
    THEN /\ peer' = [peer EXCEPT !.cookies = c, !.saved = save(c), !.expect = e,
                                  !.result = NoPeerResult]
         /\ UNCHANGED <<cookies, saved>>
    ELSE /\ cookies' = c
         /\ saved' = save(c)
         /\ peer' = [peer EXCEPT !.expect = e, !.result = NoPeerResult]

PeerSetCookie ==
    \E k \in CookieKeys, v \in CookieValues :
        /\ PeerCommit(set_item(PeerStore, k, v),
                      [j \in DOMAIN peer.expect \cup { k } |->
                          IF j = k THEN v ELSE peer.expect[j]])
        /\ UNCHANGED <<now, tokenVars, credVars, sc, written, sess>>

PeerLogout ==
    /\ PeerCommit(clear(PeerStore), NoCookies)
    /\ UNCHANGED <<now, tokenVars, credVars, sc, written, sess>>

PeerGetCookie ==
    \E k \in CookieKeys :
        /\ peer' = [peer EXCEPT !.result =
                        [op |-> "get", key |-> k, ret |-> get_cookie(PeerStore, k),
                         want |-> IF k \in DOMAIN peer.expect THEN peer.expect[k] ELSE None]]
        /\ UNCHANGED <<now, tokenVars, credVars, cookies, saved, sc, written, sess>>

\* The peer enters verify_user; the backend answers this call.
PeerVerifyBegin ==
    \E u \in Subjects, p \in Passwords :
        /\ ~peer.call.busy
        /\ peer' = [peer EXCEPT !.call = [busy |-> TRUE, username |-> u, password |-> p],
                                !.result = NoPeerResult]
        /\ UNCHANGED <<now, tokenVars, credVars, cookies, saved, sc, written, sess>>

\* The peer's verify_user returns.
PeerVerifyEnd ==
    /\ peer.call.busy
    /\ peer' = [peer EXCEPT !.call = NoPeerCall,
                            !.result =
                                [op |-> "verify", key |-> "",
                                 ret |-> verify_user(users, peer.call.username,
                                                     peer.call.password, "ok").ret,
                                 want |-> \E row \in users :
                                             /\ row[1] = peer.call.username
                                             /\ row[2] = hash_password(peer.call.password)]]
    /\ UNCHANGED <<now, tokenVars, credVars, cookies, saved, sc, written, sess>>

(***************************************************************************)
(* Specifications.                                                         *)
(***************************************************************************)
MaxRows == 2          \* rows of the Users table
StoredPasswords == { hash_password(p) : p \in Passwords } \cup { <<112>> }
Tables == { tbl \in SUBSET (Subjects \X StoredPasswords) : Cardinality(tbl) <= MaxRows }
\* The table holding user "a" with password "p" only.
OneUser == { << <<97>>, hash_password(<<112>>) >> }

InitCommon ==
    /\ now = StartTicks
    /\ token = NoToken
    /\ vt = NoValidate
    /\ diagnostics = 0
    /\ conns = 0
    /\ vu = NoVerify
    /\ cookies = NoCookies
    /\ saved = NoCookies
    /\ sc = NoCall
    /\ written = [k \in CookieKeys |-> None]
    /\ sess = [state |-> "none", user |-> None, at |-> 0, held |-> None]
    /\ peer = NoPeer

\* Tokens against the clock.
InitToken == InitCommon /\ users = OneUser
NextToken == Tick \/ Jump \/ GenerateToken \/ ValidateToken \/ Return
SpecToken == InitToken /\ [][NextToken]_vars

\* Tokens with one character changed.
NextTamper == Tick \/ Jump \/ GenerateToken \/ ValidateTampered \/ Return
SpecTamper == InitToken /\ [][NextTamper]_vars

\* Tokens of this AuthManager and tokens signed under another secret or salt.
NextForeign == Tick \/ Jump \/ GenerateToken \/ GenerateForeign \/ ValidateHeld \/ Return
SpecForeign == InitToken /\ [][NextForeign]_vars

\* Credential checks against any small Users table.
InitCred == InitCommon /\ users \in Tables
NextCred == VerifyUser \/ Return
SpecCred == InitCred /\ [][NextCred]_vars

\* The session store and the login lifecycle.
InitSession == InitCommon /\ users = OneUser
NextSession == Tick \/ Jump \/ SetCookie \/ GetCookie \/ Logout \/ Login \/ CurrentSubject \/ Return
SpecSession == InitSession /\ [][NextSession]_vars

\* A caller holding a token while the session store is written and cleared.
NextStateless ==
    Tick \/ GenerateToken \/ ValidateHeld \/ SetCookie \/ Logout \/ Return
SpecStateless == InitSession /\ [][NextStateless]_vars

\* Every method of AuthManager, called in any order.
NextMethods ==
    \/ HashPassword \/ VerifyUser \/ GenerateToken \/ ValidateHeld
    \/ SetCookie \/ GetCookie \/ Logout \/ Return
SpecMethods == InitSession /\ [][NextMethods]_vars

\* Two clients, their calls interleaved in any order.
NextClients ==
    \/ SetCookie \/ GetCookie \/ Logout \/ VerifyUser \/ Return
    \/ PeerSetCookie \/ PeerGetCookie \/ PeerLogout \/ PeerVerifyBegin \/ PeerVerifyEnd
SpecClients == InitSession /\ [][NextClients]_vars

(***************************************************************************)
(* Claims about tokens.                                                    *)
(***************************************************************************)
\* The last call validated the token held in `token`, exactly as issued.
ValidatedIssued ==
    vt.called /\ token # NoToken /\ token.signer = "own" /\ vt.tok = token.tok

\* Ticks between the issuance of the token and the last validate_token call.
Elapsed == vt.at - token.at

\* Whole seconds between the two clock readings, as TimestampSigner sees them.
AgeSeen == get_timestamp(vt.at) - get_timestamp(token.at)

\* C1: a token validated unmodified, no later than max_age seconds after it was
\* issued, gives back exactly the subject it was issued for.
C1_RoundTrip ==
    (ValidatedIssued /\ Elapsed <= vt.max_age * TicksPerSec)
        => (~vt.raised /\ vt.ret = token.sub)

\* C1 witness: a token validated exactly max_age > 0 seconds after issuance.
C1_Witness ==
    /\ ValidatedIssued
    /\ vt.max_age > 0
    /\ Elapsed = vt.max_age * TicksPerSec
    /\ vt.ret = token.sub

\* C2 as stated: whenever more time than max_age has elapsed since issuance,
\* validate_token returns None.
C2_ExpiryByElapsedTime ==
    (ValidatedIssued /\ Elapsed > vt.max_age * TicksPerSec) => vt.ret = None

\* C2 amended: whenever the whole-second clock reading at validation exceeds
\* the one at issuance by more than max_age (so always once max_age + 1 seconds
\* have elapsed), validate_token returns None.
C2_ExpiryByWholeSeconds ==
    (ValidatedIssued /\ (AgeSeen > vt.max_age \/ Elapsed >= (vt.max_age + 1) * TicksPerSec))
        => (~vt.raised /\ vt.ret = None)

\* C2 witness: issued, the clock advanced 2 seconds, validated with max_age = 1.
C2_Witness ==
    /\ ValidatedIssued
    /\ Elapsed = 2 * TicksPerSec
    /\ vt.max_age = 1
    /\ vt.ret = None

\* C3: a token that differs from an issued one in a single character is
\* rejected, whatever max_age and the elapsed time.
C3_TamperRejected ==
    (vt.called /\ token # NoToken /\ DiffersInOne(vt.tok, token.tok)) => vt.ret = None

\* C4: validate_token never raises; it returns a subject or None, for a token
\* as issued, an expired one, a malformed string, a bad signature and None.
C4_NeverRaises ==
    vt.called => (~vt.raised /\ (vt.ret = None \/ vt.ret \in Subjects))

\* C4 witness: validate_token(None) has returned None.
C4_Witness == vt.called /\ vt.tok = None /\ ~vt.raised /\ vt.ret = None

(***************************************************************************)
(* Claims about credentials.                                               *)
(***************************************************************************)
\* The Users table holds a row for the username and the hash of the plaintext.
RowMatches == << vu.username, hash_password(vu.password) >> \in users

\* Every row of the username stores the hash of some other plaintext.
WrongPassword ==
    /\ \E row \in users : row[1] = vu.username
    /\ \A row \in users : row[1] = vu.username =>
          \E q \in Passwords \ { vu.password } : row[2] = hash_password(q)

UnknownUser == \A row \in users : row[1] # vu.username

\* C5 as stated, in its last case: verify_user returns False for an empty
\* password.
C5_EmptyPasswordRejected ==
    (vu.called /\ vu.outcome = "ok" /\ vu.password = <<>>) => ~vu.ret

\* C5 amended: when the backend answers, verify_user returns True exactly when
\* a row holds the username and the hash of the plaintext; so it returns False
\* for a known username with a wrong password and for an unknown username, and
\* for an empty password unless a row of that username stores the hash of "".
C5_CredentialMatch ==
    (vu.called /\ vu.outcome = "ok") =>
        /\ ~vu.raised
        /\ vu.ret <=> RowMatches
        /\ WrongPassword => ~vu.ret
        /\ UnknownUser => ~vu.ret
        /\ (vu.password = <<>> /\ << vu.username, hash_password(<<>>) >> \notin users)
              => ~vu.ret

\* C5 witness: a known username with the right password has been accepted.
C5_Witness == vu.called /\ vu.outcome = "ok" /\ vu.password # <<>> /\ RowMatches /\ vu.ret

\* C6: a backend failure never raises, gives False and exactly one st.error
\* report; a lookup that succeeds emits none, whether or not a row matched.
C6_BackendFailure ==
    vu.called =>
        /\ ~vu.raised
        /\ vu.outcome # "ok" => (~vu.ret /\ diagnostics = vu.before + 1)
        /\ vu.outcome = "ok" => diagnostics = vu.before

\* C6 witness: the connection attempt failed and one report was emitted.
C6_Witness ==
    vu.called /\ vu.outcome = "connect_error" /\ ~vu.ret /\ diagnostics = vu.before + 1

C8_SessionRoundTrip ==
    sc.op = "get" =>
        /\ ~sc.raised
        /\ sc.ret = IF written[sc.key] = Cleared THEN None ELSE written[sc.key]

\* C8 witness: a key other than the session key was set, then logout cleared
\* the store, and get_cookie of that key has returned None.
C8_Witness ==
    /\ sc.op = "get"
    /\ sc.key # SessionKey
    /\ written[sc.key] = Cleared
    /\ sc.ret = None

\* The login whose result `sc` holds was given matching credentials and the
\* backend answered.
GoodLogin == sc.op = "login" /\ vu.outcome = "ok" /\ RowMatches

\* C9: a login with a matching row returns a token for the username and
\* stores it under the session key; current_subject right after it returns the
\* username; current_subject after logout returns None.
C9_LoginLifecycle ==
    /\ GoodLogin =>
          /\ ~sc.raised
          /\ sc.ret # None
          /\ get_cookie(cookies, SessionKey) = sc.ret
          /\ get_cookie(saved, SessionKey) = sc.ret
          /\ validate_token(sc.ret, DefaultMaxAge, now).ret = vu.username
    /\ (sc.op = "current_subject" /\ sess.state = "in" /\ now = sess.at) =>
          (~sc.raised /\ sc.ret = sess.user)
    /\ (sc.op = "current_subject" /\ sess.state = "out") =>
          (~sc.raised /\ sc.ret = None)

\* C9 witness: current_subject right after a successful login of "a".
C9_Witness ==
    /\ sc.op = "current_subject"
    /\ sess.state = "in"
    /\ now = sess.at
    /\ sc.ret = <<97>>

\* The login whose result `sc'` holds was given a wrong password or an unknown
\* user, or the backend failed.
FailedLoginStep == sc'.op = "login" /\ ~(vu'.outcome = "ok" /\ RowMatches')

\* C10: a failed login returns None and leaves the session store as it was, in
\* memory and as saved; with no session before it, current_subject gives None.
C10_FailedLogin ==
    /\ [][FailedLoginStep =>
            /\ ~sc'.raised
            /\ sc'.ret = None
            /\ cookies' = cookies
            /\ saved' = saved
            /\ token' = token]_vars
    /\ []((sc.op = "current_subject" /\ sess.state = "none") =>
            (~sc.raised /\ sc.ret = None))

\* C10 witness: a login with a wrong password for a known user has returned None.
C10_Witness ==
    /\ sc.op = "login"
    /\ vu.outcome = "ok"
    /\ WrongPassword
    /\ sc.ret = None
    /\ cookies = NoCookies

C12_SynchronousCommit ==
    /\ saved = cookies
    /\ sc.op = "set" => get_cookie(saved, sc.key) = sc.val
    /\ sc.op = "logout" => saved = NoCookies
    /\ sc.op = "get" => sc.ret = get_cookie(saved, sc.key)

\* C12 witness: set_cookie has returned and the persisted store holds the
\* value, next to a key persisted by an earlier call.
C12_Witness ==
    /\ sc.op = "set"
    /\ get_cookie(saved, sc.key) = sc.val
    /\ \E k \in CookieKeys \ { sc.key } : get_cookie(saved, k) # None

\* C13: what validate_token returns for an issued token is decided by the
\* token, max_age and the whole seconds since issuance alone: the subject while
\* the age is within max_age and None after, whatever set_cookie or logout did
\* in between; logout revokes nothing.
C13_NotRevocable ==
    ValidatedIssued =>
        /\ ~vt.raised
        /\ vt.ret = IF AgeSeen <= vt.max_age THEN token.sub ELSE None

\* C13 witness: the token the caller held when logout ran was validated after
\* the logout, later than its issuance and with nothing in the store, and the
\* subject came back.
C13_Witness ==
    /\ ValidatedIssued
    /\ sess.state = "out"
    /\ sess.held = token.tok
    /\ token.at < vt.at
    /\ cookies = NoCookies
    /\ vt.ret = token.sub

\* What a client that ran alone would find under key k, given its history w.
Alone(w, k) == IF w[k] \in { None, Cleared } THEN None ELSE w[k]

\* C14: with the calls of two clients interleaved in any order, each client's
\* store and results are what its own calls alone produce: set_cookie and
\* logout of one client never change the other's store or what its get_cookie
\* returns, and a verify_user call returns what the table says for its own
\* arguments whatever call of the other client overlaps it.
C14_ClientsIndependent ==
    /\ \A k \in CookieKeys : get_cookie(cookies, k) = Alone(written, k)
    /\ sc.op = "get" => sc.ret = Alone(written, sc.key)
    /\ peer.cookies = peer.expect
    /\ peer.saved = peer.expect
    /\ peer.result.op # "none" => peer.result.ret = peer.result.want
    /\ (vu.called /\ vu.outcome = "ok") => (vu.ret <=> RowMatches)

\* C14 witness: after its own logout the first client read None under a key
\* that the second client holds and read back with its own value.
C14_Witness ==
    /\ sc.op = "get"
    /\ written[sc.key] = Cleared
    /\ sc.ret = None
    /\ peer.result.op = "get"
    /\ peer.result.key = sc.key
    /\ peer.result.ret \in CookieValues

\* The last call validated the token held in `token`, whoever signed it.
ValidatedHeld == vt.called /\ token # NoToken /\ vt.tok = token.tok

\* C15: validate_token returns a subject only for a token signed with this
\* AuthManager's secret under the salt "auth_salt": a token signed with the
\* same secret under another salt, or with another secret under the same
\* salt, gives None for every max_age and at every age.
C15_DomainSeparation ==
    ValidatedHeld =>
        /\ token.signer # "own" => (~vt.raised /\ vt.ret = None)
        /\ vt.ret # None => (token.signer = "own" /\ vt.ret = token.sub)

\* C15 witness: a token signed with this secret under another salt, validated
\* at once under the default max_age, was rejected.
C15_Witness ==
    /\ ValidatedHeld
    /\ token.signer = "other_salt"
    /\ vt.max_age = DefaultMaxAge
    /\ Elapsed = 0
    /\ vt.ret = None

\* The step is the return of a read-only method: hash_password, verify_user,
\* generate_token, validate_token or get_cookie.
ReadOnlyStep ==
    \/ sc'.op \in { "hash", "get" }
    \/ vu'.called
    \/ vt'.called
    \/ token' # token

\* C16: no method changes the rows of Users; hash_password, verify_user,
\* generate_token, validate_token and get_cookie leave the session store, in
\* memory and persisted, as it was; a step that changes the session store is a
\* set_cookie or a logout.
C16_ReadOnly ==
    [][ /\ users' = users
        /\ ReadOnlyStep => (cookies' = cookies /\ saved' = saved)
        /\ (cookies' # cookies \/ saved' # saved) => sc'.op \in { "set", "logout" }
      ]_vars

\* C16 witness: verify_user has answered True with a session stored, and the
\* table still holds its one row.
C16_Witness ==
    /\ vu.called
    /\ vu.ret
    /\ get_cookie(saved, SessionKey) # None
    /\ users = OneUser

\* C17: set_cookie(k, v) leaves exactly the keys held before plus k, with v
\* under k whatever k held before, and every other key as it was; a read of a
\* key returns the value last set, also when the key was set again after a
\* logout.
C17_Overwrite ==
    /\ [][ sc'.op = "set" =>
              /\ get_cookie(cookies', sc'.key) = sc'.val
              /\ DOMAIN cookies' = DOMAIN cookies \cup { sc'.key }
              /\ \A k \in CookieKeys \ { sc'.key } :
                    get_cookie(cookies', k) = get_cookie(cookies, k)
          ]_vars
    /\ []((sc.op = "get" /\ written[sc.key] \in CookieValues) => sc.ret = written[sc.key])

\* C17 witness: set_cookie replaced a different value held under the key,
\* with another key in the store.
C17_Witness ==
    /\ sc.op = "set"
    /\ sc.before \in CookieValues \ { sc.val }
    /\ cookies[sc.key] = sc.val
    /\ \E k \in DOMAIN cookies : k # sc.key

\* The readings the clock can show from t on.
ClockFrom(t) ==
    { u \in { StartTicks + j * JumpTicks + k : j \in 0..MaxJumps, k \in 0..MaxTicks } :
        u >= t }

\* C18: a token validate_token rejected under max_age m is rejected at every
\* later time under every max_age up to m, and a token it accepted under m is
\* accepted at that time, with the same subject, under every larger max_age.
C18_MonotoneValidity ==
    vt.called =>
        /\ vt.ret = None =>
              \A t \in ClockFrom(vt.at), m \in { n \in MaxAges : n <= vt.max_age } :
                  validate_token(vt.tok, m, t).ret = None
        /\ vt.ret # None =>
              \A m \in { n \in MaxAges : n >= vt.max_age } :
                  validate_token(vt.tok, m, vt.at).ret = vt.ret

\* C18 witness: an issued token was rejected for its age under a max_age that
\* is not the smallest, with the clock still to advance.
C18_Witness ==
    /\ ValidatedIssued
    /\ vt.ret = None
    /\ AgeSeen > vt.max_age
    /\ vt.max_age > 0
    /\ ClockFrom(vt.at) # { vt.at }

====
